---- MODULE Spec2Model ----
(***************************************************************************)
(* Model of the financial conversational agent:                            *)
(*   - the six aggregation primitives of agent_tools_utils.py,             *)
(*   - the request validation gate and the /conversation handler of        *)
(*     main.py,                                                            *)
(*   - the LangGraph run (assistant / tools / speaker) and its             *)
(*     checkpointer of agent.py.                                           *)
(*                                                                         *)
(* Strings the code inspects character by character (dates, timestamps,    *)
(* amounts) are sequences of one-character strings.  Amounts are whole     *)
(* numbers of naira; a float is the double nearest to the number, so       *)
(* addition is exact below 2^53 and rounds to the nearest even double      *)
(* from there on.                                                          *)
(***************************************************************************)
EXTENDS Integers, Sequences, FiniteSets, TLC

VARIABLES
    pTransactions,  \* primitives: the transaction list a primitive is called on
    pCall,          \* primitives: the call made (name and keyword arguments)
    pResult,        \* primitives: what the call returned or raised
    graph,          \* main.graph: "none" until startup compiled it
    store,          \* the checkpointer: thread id -> last checkpoint saved
    phase,          \* "idle", or "running" while graph.ainvoke is awaited
    req,            \* the request being handled (the last one handled, when idle)
    state,          \* the channel values of the run
    step,           \* the current superstep: nodes scheduled, nodes left, writes
    response,       \* the last HTTP response
    engineCalls,    \* Decision Engine invocations made for req
    engineTotal,    \* Decision Engine invocations made since Init
    requests        \* requests received since Init

pvars == <<pTransactions, pCall, pResult>>
ovars == <<graph, store, phase, req, state, step, response, engineCalls, engineTotal,
           requests>>
vars == <<pTransactions, pCall, pResult,
          graph, store, phase, req, state, step, response, engineCalls, engineTotal,
          requests>>

-----------------------------------------------------------------------------
(* Bounds *)

MaxLen == 2         \* longest transaction list a primitive is called on
MaxRequests == 2    \* requests received in one behaviour
MaxEngineCalls == 3 \* Decision Engine invocations in one behaviour
MaxOrderLen == 3    \* longest transaction list permuted

-----------------------------------------------------------------------------
(* Characters and strings *)

Digits == {"0", "1", "2", "3", "4", "5", "6", "7", "8", "9"}

DigitVal(c) ==
    CASE c = "0" -> 0 [] c = "1" -> 1 [] c = "2" -> 2 [] c = "3" -> 3
      [] c = "4" -> 4 [] c = "5" -> 5 [] c = "6" -> 6 [] c = "7" -> 7
      [] c = "8" -> 8 [] c = "9" -> 9

AllDigits(s) == \A i \in 1..Len(s) : s[i] \in Digits

RECURSIVE DigitsToNat(_)
DigitsToNat(s) ==
    IF s = <<>> THEN 0
    ELSE 10 * DigitsToNat(SubSeq(s, 1, Len(s) - 1)) + DigitVal(s[Len(s)])

\* str.replace(',', '')
RECURSIVE RemoveCommas(_)
RemoveCommas(s) ==
    IF s = <<>> THEN <<>>
    ELSE IF Head(s) = "," THEN RemoveCommas(Tail(s))
    ELSE <<Head(s)>> \o RemoveCommas(Tail(s))

-----------------------------------------------------------------------------
(* Python values: a kind tag, a number payload, a string payload *)

PyStr(s)   == [k |-> "str",   n |-> 0, s |-> s]
PyInt(n)   == [k |-> "int",   n |-> n, s |-> <<>>]
PyFloatV(n) == [k |-> "float", n |-> n, s |-> <<>>]
PyBool(b)  == [k |-> "bool",  n |-> IF b THEN 1 ELSE 0, s |-> <<>>]
PyNone     == [k |-> "none",  n |-> 0, s |-> <<>>]

\* isinstance(v, str)
IsStr(v) == v.k = "str"

\* isinstance(v, (str, int, float)): bool is a subclass of int
IsStrIntFloat(v) == v.k \in {"str", "int", "float", "bool"}

\* isinstance(v, bool)
IsBool(v) == v.k = "bool"

\* Doubles.  A double has a 53-bit significand: every whole number up to
\* 2^53 is a double, and from 2^53 on the doubles are 2 apart, from 2^54 on
\* 4 apart, and so on.  The numbers of this model are h * 2^53 + l with h
\* and l small; TwoTo53 is the numeral that stands for 2^53 in them (2^53
\* itself is beyond the integers TLC computes with), so that h * 2^53 + l is
\* written h * TwoTo53 + l: sums and comparisons of such numbers are those
\* of the numbers they stand for.
TwoTo53 == 100000000

\* the distance between neighbouring doubles in [h * 2^53, (h + 1) * 2^53)
Ulp(h) ==
    IF h = 0 THEN 1 ELSE IF h = 1 THEN 2 ELSE IF h <= 3 THEN 4
    ELSE IF h <= 7 THEN 8 ELSE 16

\* the double nearest to the whole number x, ties to the even significand
RoundToDouble(x) ==
    IF x < TwoTo53 THEN x
    ELSE LET u == Ulp(x \div TwoTo53)
             l == x % TwoTo53
             r == l % u
         IN  IF 2 * r < u THEN x - r
             ELSE IF 2 * r > u THEN x - r + u
             ELSE IF (l \div u) % 2 = 0 THEN x - r
             ELSE x - r + u

\* a + b on floats
FloatAdd(a, b) == RoundToDouble(a + b)

\* float(v): a number converts; a string converts when it is a plain run of
\* digits (the strings of this model hold digits, commas and letters only)
Raised(e) == [ok |-> FALSE, val |-> 0, err |-> e]
Returned(x) == [ok |-> TRUE, val |-> x, err |-> ""]

float(v) ==
    IF v.k = "int" THEN Returned(RoundToDouble(v.n))
    ELSE IF v.k \in {"float", "bool"} THEN Returned(v.n)
    ELSE IF v.k # "str" THEN Raised("TypeError: float() argument must be a string or a real number")
    ELSE IF v.s # <<>> /\ AllDigits(v.s) THEN Returned(DigitsToNat(v.s))
    ELSE Raised("ValueError: could not convert string to float")

convert_to_float(v) ==
    IF IsStr(v) THEN float(PyStr(RemoveCommas(v.s))) ELSE float(v)

-----------------------------------------------------------------------------
(* Dates *)

NoDate == <<>>      \* None (and the empty string: both are falsy)

\* re.match(r"^\d{4}-\d{2}-\d{2}$", s)
date_pattern(s) ==
    /\ Len(s) = 10
    /\ \A i \in {1, 2, 3, 4, 6, 7, 9, 10} : s[i] \in Digits
    /\ s[5] = "-"
    /\ s[8] = "-"

IsLeap(y) == (y % 4 = 0 /\ y % 100 # 0) \/ y % 400 = 0

DaysInMonth(y, m) ==
    IF m = 2 THEN (IF IsLeap(y) THEN 29 ELSE 28)
    ELSE IF m \in {4, 6, 9, 11} THEN 30 ELSE 31

YearOf(s)  == DigitsToNat(SubSeq(s, 1, 4))
MonthOf(s) == DigitsToNat(SubSeq(s, 6, 7))
DayOf(s)   == DigitsToNat(SubSeq(s, 9, 10))

\* the calendar check datetime applies to year, month and day
CalendarDate(s) ==
    /\ YearOf(s) >= 1
    /\ MonthOf(s) \in 1..12
    /\ DayOf(s) \in 1..DaysInMonth(YearOf(s), MonthOf(s))

\* A point in time (UTC): a day number that orders as the calendar does, and
\* the second of that day
Instant(y, m, d, secs) == [day |-> (y * 13 + m) * 32 + d, secs |-> secs]

\* a <= b on datetimes
NotAfter(a, b) == a.day < b.day \/ (a.day = b.day /\ a.secs <= b.secs)

\* datetime.strptime(s, '%Y-%m-%d').replace(tzinfo=timezone.utc):
\* midnight UTC at the start of the day, or ValueError
strptime(s) ==
    IF date_pattern(s) /\ CalendarDate(s)
    THEN Returned(Instant(YearOf(s), MonthOf(s), DayOf(s), 0))
    ELSE Raised("ValueError: time data does not match format")

\* datetime.fromisoformat(s.replace('Z', '+00:00')).astimezone(timezone.utc)
\* for the timestamps of this model: YYYY-MM-DDTHH:MM:SSZ parses, anything
\* else is a ValueError
fromisoformat(s) ==
    IF /\ Len(s) = 20
       /\ date_pattern(SubSeq(s, 1, 10))
       /\ CalendarDate(SubSeq(s, 1, 10))
       /\ s[11] = "T"
       /\ \A i \in {12, 13, 15, 16, 18, 19} : s[i] \in Digits
       /\ s[14] = ":" /\ s[17] = ":"
       /\ s[20] = "Z"
       /\ DigitsToNat(SubSeq(s, 12, 13)) < 24
       /\ DigitsToNat(SubSeq(s, 15, 16)) < 60
       /\ DigitsToNat(SubSeq(s, 18, 19)) < 60
    THEN Returned(Instant(YearOf(s), MonthOf(s), DayOf(s),
                          DigitsToNat(SubSeq(s, 12, 13)) * 3600
                          + DigitsToNat(SubSeq(s, 15, 16)) * 60
                          + DigitsToNat(SubSeq(s, 18, 19))))
    ELSE Raised("ValueError: Invalid isoformat string")

-----------------------------------------------------------------------------
(* Transaction records: the six fields of TransactionTrim, each a Python    *)
(* value.  A missing field reads as None, as dict.get gives it.  The words  *)
(* the code only compares for equality (type, currency, transactionId) are  *)
(* one-element strings.                                                      *)

Word(w) == PyStr(<<w>>)

Txn(id, amount, type, date) ==
    [transactionId |-> Word(id), amount |-> amount, type |-> Word(type),
     currency |-> Word("NGN"), balance |-> PyInt(0), transactionDate |-> PyStr(date)]

d_2025_07_31 == <<"2", "0", "2", "5", "-", "0", "7", "-", "3", "1">>
d_2025_08_01 == <<"2", "0", "2", "5", "-", "0", "8", "-", "0", "1">>
d_2025_08_31 == <<"2", "0", "2", "5", "-", "0", "8", "-", "3", "1">>
d_2025_09_01 == <<"2", "0", "2", "5", "-", "0", "9", "-", "0", "1">>
d_2025_13_40 == <<"2", "0", "2", "5", "-", "1", "3", "-", "4", "0">>
d_2025_02_30 == <<"2", "0", "2", "5", "-", "0", "2", "-", "3", "0">>
d_slashes    == <<"2", "0", "2", "5", "/", "0", "8", "/", "0", "1">>
d_short      == <<"2", "0", "2", "5", "-", "8", "-", "1">>

t_00_00_00 == <<"T", "0", "0", ":", "0", "0", ":", "0", "0", "Z">>
t_10_00_00 == <<"T", "1", "0", ":", "0", "0", ":", "0", "0", "Z">>
t_23_59_59 == <<"T", "2", "3", ":", "5", "9", ":", "5", "9", "Z">>

s_100   == <<"1", "0", "0">>
s_1_500 == <<"1", ",", "5", "0", "0">>

\* Records the validation gate admits
TxPool ==
    { Txn("a", PyInt(100),      "debit",  d_2025_08_01 \o t_00_00_00),
      Txn("b", PyInt(500),      "credit", d_2025_08_31 \o t_10_00_00),
      Txn("c", PyFloatV(40),    "debit",  d_2025_08_31 \o t_23_59_59),
      Txn("d", PyStr(s_100),    "credit", d_2025_09_01 \o t_00_00_00),
      Txn("e", PyInt(2000),     "debit",  d_2025_07_31 \o t_23_59_59),
      Txn("f", PyStr(s_1_500),  "credit", d_2025_08_31 \o t_00_00_00) }

SeqsUpTo(S, n) == UNION { [1..k -> S] : k \in 0..n }

\* start_date / end_date arguments a caller may pass
DateArgs ==
    { NoDate, d_2025_08_01, d_2025_08_31, d_2025_09_01,
      d_2025_13_40, d_2025_02_30, d_slashes, d_short }

NoType == "none"
TypeArgs == { NoType, "credit", "debit" }

NoAmount == [some |-> FALSE, v |-> 0]
Amount(x) == [some |-> TRUE, v |-> x]
AmountArgs == { NoAmount, Amount(-1), Amount(0), Amount(100), Amount(500), Amount(1500) }

-----------------------------------------------------------------------------
(* The aggregation primitives *)

\* a sum that keeps the last amount only (total = x for total += x)
SumAmounts_last(filtered) ==
    IF filtered = <<>> THEN Returned(0)
    ELSE float(filtered[Len(filtered)].amount)

\* sum(float(t['amount']) for t in filtered): the amounts are added to the
\* running total from the first to the last, each addition a float
\* addition; the first amount float() rejects raises
RECURSIVE SumAmounts(_)
SumAmounts(filtered) ==
    IF filtered = <<>> THEN Returned(0)
    ELSE LET total == SumAmounts(SubSeq(filtered, 1, Len(filtered) - 1))
             x == float(filtered[Len(filtered)].amount)
         IN  IF ~total.ok THEN total
             ELSE IF ~x.ok THEN x
             ELSE Returned(FloatAdd(total.val, x.val))

Selected(sel) == [ok |-> TRUE, sel |-> sel, err |-> ""]
SelectRaised(e) == [ok |-> FALSE, sel |-> <<>>, err |-> e]

\* the upper end of the window: midnight at the start of end_date
WindowEnd(end) == end

\* the parameter checks and the date filter the two date primitives share
DateSelect(transactions, start_date, end_date) ==
    IF start_date # NoDate /\ ~date_pattern(start_date)
    THEN SelectRaised("ValueError: start_date must be in YYYY-MM-DD format")
    ELSE IF end_date # NoDate /\ ~date_pattern(end_date)
    THEN SelectRaised("ValueError: end_date must be in YYYY-MM-DD format")
    ELSE IF start_date = NoDate THEN Selected(transactions)
    ELSE LET start == strptime(start_date)
             end == IF end_date # NoDate THEN strptime(end_date) ELSE start
             at(t) == IF IsStr(t.transactionDate)
                      THEN fromisoformat(t.transactionDate.s)
                      ELSE Raised("AttributeError: replace")
         IN  IF ~start.ok THEN SelectRaised(start.err)
             ELSE IF ~end.ok THEN SelectRaised(end.err)
             ELSE IF \E i \in 1..Len(transactions) : ~at(transactions[i]).ok
             THEN SelectRaised("ValueError: Invalid isoformat string")
             ELSE Selected(SelectSeq(transactions,
                      LAMBDA t : /\ NotAfter(start.val, at(t).val)
                                 /\ NotAfter(at(t).val, WindowEnd(end.val))))

filter_by_date_and_sum(transactions, start_date, end_date) ==
    LET f == DateSelect(transactions, start_date, end_date)
    IN  IF f.ok THEN SumAmounts(f.sel) ELSE Raised(f.err)

filter_by_date_and_count(transactions, start_date, end_date) ==
    LET f == DateSelect(transactions, start_date, end_date)
    IN  IF f.ok THEN Returned(Len(f.sel)) ELSE Raised(f.err)

\* [t for t in transactions if t['type'] == transaction_type.value]
TypeSelect(transactions, transaction_type) ==
    IF transaction_type # NoType
    THEN SelectSeq(transactions, LAMBDA t : t.type = Word(transaction_type))
    ELSE transactions

filter_by_type_and_sum(transactions, transaction_type) ==
    LET filtered == TypeSelect(transactions, transaction_type)
    IN  IF filtered # <<>> THEN SumAmounts(filtered) ELSE Returned(0)

filter_by_type_and_count(transactions, transaction_type) ==
    Returned(Len(TypeSelect(transactions, transaction_type)))

\* the amount selection with the bound checks made after the comprehensions
AmountSelect_late(transactions, min_amount, max_amount) ==
    LET bad(s) == \E i \in 1..Len(s) : ~float(s[i].amount).ok
        f1 == IF min_amount.some
              THEN SelectSeq(transactions, LAMBDA t : float(t.amount).val >= min_amount.v)
              ELSE transactions
        f2 == IF max_amount.some
              THEN SelectSeq(f1, LAMBDA t : float(t.amount).val <= max_amount.v)
              ELSE f1
    IN  IF min_amount.some /\ bad(transactions)
        THEN SelectRaised("ValueError: could not convert string to float")
        ELSE IF max_amount.some /\ bad(f1)
        THEN SelectRaised("ValueError: could not convert string to float")
        ELSE IF min_amount.some /\ min_amount.v < 0
        THEN SelectRaised("ValueError: min_amount must be non-negative")
        ELSE IF max_amount.some /\ max_amount.v < 0
        THEN SelectRaised("ValueError: max_amount must be non-negative")
        ELSE Selected(f2)

\* the bound checks and the two comprehensions the amount primitives share;
\* each comprehension calls float() on every record it walks
AmountSelect(transactions, min_amount, max_amount) ==
    IF min_amount.some /\ min_amount.v < 0
    THEN SelectRaised("ValueError: min_amount must be non-negative")
    ELSE IF max_amount.some /\ max_amount.v < 0
    THEN SelectRaised("ValueError: max_amount must be non-negative")
    ELSE LET bad(s) == \E i \in 1..Len(s) : ~float(s[i].amount).ok
             f1 == IF min_amount.some
                   THEN SelectSeq(transactions, LAMBDA t : float(t.amount).val >= min_amount.v)
                   ELSE transactions
             f2 == IF max_amount.some
                   THEN SelectSeq(f1, LAMBDA t : float(t.amount).val <= max_amount.v)
                   ELSE f1
         IN  IF min_amount.some /\ bad(transactions)
             THEN SelectRaised("ValueError: could not convert string to float")
             ELSE IF max_amount.some /\ bad(f1)
             THEN SelectRaised("ValueError: could not convert string to float")
             ELSE Selected(f2)

filter_by_amount_and_sum(transactions, min_amount, max_amount) ==
    LET f == AmountSelect(transactions, min_amount, max_amount)
    IN  IF f.ok THEN SumAmounts(f.sel) ELSE Raised(f.err)

filter_by_amount_and_count(transactions, min_amount, max_amount) ==
    LET f == AmountSelect(transactions, min_amount, max_amount)
    IN  IF f.ok THEN Returned(Len(f.sel)) ELSE Raised(f.err)

-----------------------------------------------------------------------------
(* A tool call: the primitive's name and the keyword arguments of the call. *)
(* A primitive receives the arguments its signature declares; a keyword it  *)
(* does not declare (transaction_type on a date primitive) never reaches it.*)

NotGiven == [given |-> FALSE, list |-> <<>>]
Given(l) == [given |-> TRUE, list |-> l]

NoCall == [name |-> "none", transactions |-> NotGiven,
           start_date |-> NoDate, end_date |-> NoDate,
           transaction_type |-> NoType, min_amount |-> NoAmount, max_amount |-> NoAmount]

DateCall(name, start_date, end_date, transaction_type) ==
    [NoCall EXCEPT !.name = name, !.start_date = start_date, !.end_date = end_date,
                   !.transaction_type = transaction_type]

TypeCall(name, transaction_type) ==
    [NoCall EXCEPT !.name = name, !.transaction_type = transaction_type]

AmountCall(name, min_amount, max_amount) ==
    [NoCall EXCEPT !.name = name, !.min_amount = min_amount, !.max_amount = max_amount]

InvokeTool(call) ==
    LET transactions == call.transactions.list IN
    CASE call.name = "filter_by_date_and_sum" ->
            filter_by_date_and_sum(transactions, call.start_date, call.end_date)
      [] call.name = "filter_by_date_and_count" ->
            filter_by_date_and_count(transactions, call.start_date, call.end_date)
      [] call.name = "filter_by_type_and_sum" ->
            filter_by_type_and_sum(transactions, call.transaction_type)
      [] call.name = "filter_by_type_and_count" ->
            filter_by_type_and_count(transactions, call.transaction_type)
      [] call.name = "filter_by_amount_and_sum" ->
            filter_by_amount_and_sum(transactions, call.min_amount, call.max_amount)
      [] call.name = "filter_by_amount_and_count" ->
            filter_by_amount_and_count(transactions, call.min_amount, call.max_amount)

-----------------------------------------------------------------------------
(* Conversation turns.  A human turn carries the prompt and the transaction *)
(* list the prompt template embeds; a model turn its text and its tool      *)
(* calls; a tool turn the call it answers and the call's outcome.           *)

HumanMessage(prompt, transactions) ==
    [type |-> "human", text |-> prompt, calls |-> <<>>,
     result |-> Returned(0), transactions |-> transactions]

AIMessage(text, calls) ==
    [type |-> "ai", text |-> text, calls |-> calls,
     result |-> Returned(0), transactions |-> <<>>]

ToolMessage(call, result) ==
    [type |-> "tool", text |-> "", calls |-> <<call>>,
     result |-> result, transactions |-> <<>>]

Threads == {"t1", "t2"}

NoAudio == "none"

\* the channels of SharedStateSchema
EmptyState ==
    [messages |-> <<>>, transactions |-> <<>>, status |-> "",
     get_audio |-> FALSE, audio |-> NoAudio]

\* aiosqlite.connect(":memory:"): a store with no checkpoint for any thread
EmptyStore == [t \in Threads |-> EmptyState]

NoStep == [nodes |-> {}, left |-> {}, msgs |-> <<>>,
           spoke |-> FALSE, audio |-> NoAudio, status |-> ""]

NoResponse == [code |-> 0, messages |-> "", audio |-> NoAudio]

NoList == [isList |-> FALSE, items |-> <<>>]
ListOf(l) == [isList |-> TRUE, items |-> l]

NoRequest ==
    [prompt |-> PyNone, thread_id |-> PyNone, transactions |-> NoList, get_audio |-> PyNone]

\* module load: graph = None, nothing handled yet
InitIdle ==
    /\ graph = "none"
    /\ store = EmptyStore
    /\ phase = "idle"
    /\ req = NoRequest
    /\ state = EmptyState
    /\ step = NoStep
    /\ response = NoResponse
    /\ engineCalls = 0
    /\ engineTotal = 0
    /\ requests = 0

-----------------------------------------------------------------------------
(* Specification of the primitives: a list is drawn, one primitive is       *)
(* called on it with arguments drawn from the argument sets.                *)

NoResult == [ok |-> FALSE, val |-> 0, err |-> "not called"]

InitPrim ==
    /\ pTransactions \in SeqsUpTo(TxPool, MaxLen)
    /\ pCall = NoCall
    /\ pResult = NoResult
    /\ InitIdle

CallDateSum ==
    /\ pCall = NoCall
    /\ \E s \in DateArgs, e \in DateArgs, k \in TypeArgs :
        /\ pCall' = [DateCall("filter_by_date_and_sum", s, e, k)
                        EXCEPT !.transactions = Given(pTransactions)]
        /\ pResult' = InvokeTool(pCall')
    /\ UNCHANGED <<pTransactions, ovars>>

CallDateCount ==
    /\ pCall = NoCall
    /\ \E s \in DateArgs, e \in DateArgs, k \in TypeArgs :
        /\ pCall' = [DateCall("filter_by_date_and_count", s, e, k)
                        EXCEPT !.transactions = Given(pTransactions)]
        /\ pResult' = InvokeTool(pCall')
    /\ UNCHANGED <<pTransactions, ovars>>

CallTypeSum ==
    /\ pCall = NoCall
    /\ \E k \in TypeArgs :
        /\ pCall' = [TypeCall("filter_by_type_and_sum", k)
                        EXCEPT !.transactions = Given(pTransactions)]
        /\ pResult' = InvokeTool(pCall')
    /\ UNCHANGED <<pTransactions, ovars>>

CallTypeCount ==
    /\ pCall = NoCall
    /\ \E k \in TypeArgs :
        /\ pCall' = [TypeCall("filter_by_type_and_count", k)
                        EXCEPT !.transactions = Given(pTransactions)]
        /\ pResult' = InvokeTool(pCall')
    /\ UNCHANGED <<pTransactions, ovars>>

CallAmountSum ==
    /\ pCall = NoCall
    /\ \E lo \in AmountArgs, hi \in AmountArgs :
        /\ pCall' = [AmountCall("filter_by_amount_and_sum", lo, hi)
                        EXCEPT !.transactions = Given(pTransactions)]
        /\ pResult' = InvokeTool(pCall')
    /\ UNCHANGED <<pTransactions, ovars>>

CallAmountCount ==
    /\ pCall = NoCall
    /\ \E lo \in AmountArgs, hi \in AmountArgs :
        /\ pCall' = [AmountCall("filter_by_amount_and_count", lo, hi)
                        EXCEPT !.transactions = Given(pTransactions)]
        /\ pResult' = InvokeTool(pCall')
    /\ UNCHANGED <<pTransactions, ovars>>

NextPrim ==
    \/ CallDateSum
    \/ CallDateCount
    \/ CallTypeSum
    \/ CallTypeCount
    \/ CallAmountSum
    \/ CallAmountCount

SpecPrim == InitPrim /\ [][NextPrim]_vars

\* Specification of the primitives on lists of up to MaxOrderLen different
\* records, among them an amount of 2^53 and an amount float() rejects
OrderPool ==
    { Txn("h", PyInt(1),       "debit",  d_2025_08_01 \o t_10_00_00),
      Txn("j", PyFloatV(2),    "debit",  d_2025_08_31 \o t_00_00_00),
      Txn("i", PyInt(TwoTo53), "credit", d_2025_08_01 \o t_00_00_00),
      Txn("f", PyStr(s_1_500), "credit", d_2025_08_31 \o t_00_00_00) }

InitOrder ==
    /\ pTransactions \in { l \in SeqsUpTo(OrderPool, MaxOrderLen) :
                              \A a, b \in 1..Len(l) : l[a] = l[b] => a = b }
    /\ pCall = NoCall
    /\ pResult = NoResult
    /\ InitIdle

SpecOrder == InitOrder /\ [][NextPrim]_vars

-----------------------------------------------------------------------------
(* The request validation gate (main.py) *)

\* re.match(r"^\d{4}-\d{2}-\d{2}T.*Z$", s)
transactionDate_pattern(s) ==
    /\ Len(s) >= 12
    /\ date_pattern(SubSeq(s, 1, 10))
    /\ s[11] = "T"
    /\ s[Len(s)] = "Z"

Valid == "ok"

\* the checks made on one record, in order; the first that fails is raised
validate_transaction(t) ==
    IF ~IsStr(t.transactionId) THEN "transactionId must be a string"
    ELSE IF ~IsStrIntFloat(t.amount) THEN "amount must be a number or string"
    ELSE IF t.type \notin {Word("credit"), Word("debit")} THEN "type must be 'credit' or 'debit'"
    ELSE IF t.currency # Word("NGN") THEN "currency must be 'NGN'"
    ELSE IF ~IsStrIntFloat(t.balance) THEN "balance must be a number or string"
    ELSE IF ~IsStr(t.transactionDate) \/ ~transactionDate_pattern(t.transactionDate.s)
    THEN "transactionDate must be in ISO 8601 format"
    ELSE Valid

\* Valid, or the message of the ValueError raised
validate_invoke_request(request) ==
    IF ~IsStr(request.prompt) \/ request.prompt.s = <<>>
    THEN "prompt must be a non-empty string"
    ELSE IF ~IsStr(request.thread_id) \/ request.thread_id.s = <<>>
    THEN "thread_id must be a non-empty string"
    ELSE IF ~request.transactions.isList THEN "transactions must be a list"
    ELSE IF request.get_audio # PyNone /\ ~IsBool(request.get_audio)
    THEN "get_audio must be a boolean"
    ELSE LET items == request.transactions.items
             bad == { i \in 1..Len(items) : validate_transaction(items[i]) # Valid }
         IN  IF bad = {} THEN Valid
             ELSE validate_transaction(items[CHOOSE i \in bad : \A j \in bad : i <= j])

-----------------------------------------------------------------------------
(* sorted(transactions, key=lambda x: x['transactionDate'], reverse=True) *)

CharCode(c) ==
    CASE c = "-" -> 45 [] c = "/" -> 47 [] c \in Digits -> 48 + DigitVal(c)
      [] c = ":" -> 58 [] c = "T" -> 84 [] c = "Z" -> 90

\* a < b on str
RECURSIVE StrLess(_, _)
StrLess(a, b) ==
    IF b = <<>> THEN FALSE
    ELSE IF a = <<>> THEN TRUE
    ELSE IF Head(a) = Head(b) THEN StrLess(Tail(a), Tail(b))
    ELSE CharCode(Head(a)) < CharCode(Head(b))

\* x goes before the first record with an earlier date: the sort is stable
RECURSIVE InsertDescending(_, _)
InsertDescending(x, sorted) ==
    IF sorted = <<>> THEN <<x>>
    ELSE IF StrLess(Head(sorted).transactionDate.s, x.transactionDate.s)
    THEN <<x>> \o sorted
    ELSE <<Head(sorted)>> \o InsertDescending(x, Tail(sorted))

RECURSIVE SortedDescending(_)
SortedDescending(l) ==
    IF l = <<>> THEN <<>>
    ELSE InsertDescending(l[Len(l)], SortedDescending(SubSeq(l, 1, Len(l) - 1)))

-----------------------------------------------------------------------------
(* Requests *)

List1 ==
    << Txn("a", PyInt(100), "debit",  d_2025_08_01 \o t_00_00_00),
       Txn("b", PyInt(500), "credit", d_2025_08_31 \o t_10_00_00) >>

List2 == << Txn("f", PyStr(s_1_500), "credit", d_2025_08_31 \o t_00_00_00) >>

GoodRecord == Txn("g", PyInt(70), "debit", d_2025_09_01 \o t_00_00_00)

\* one record, one field wrong
BadRecords ==
    { [GoodRecord EXCEPT !.transactionId = PyInt(7)],
      [GoodRecord EXCEPT !.amount = PyNone],
      [GoodRecord EXCEPT !.amount = PyBool(TRUE)],
      [GoodRecord EXCEPT !.type = Word("transfer")],
      [GoodRecord EXCEPT !.currency = Word("USD")],
      [GoodRecord EXCEPT !.transactionDate = PyStr(d_2025_09_01)] }

Request(thread_id, transactions, get_audio) ==
    [prompt |-> Word("q"), thread_id |-> Word(thread_id),
     transactions |-> ListOf(transactions), get_audio |-> get_audio]

BaseRequest == Request("t1", List1, PyBool(TRUE))

GoodRequests ==
    { BaseRequest,
      Request("t1", List2, PyNone),
      Request("t2", List1, PyBool(FALSE)) }

\* a good request with one part replaced
OtherRequests ==
    { [BaseRequest EXCEPT !.prompt = PyStr(<<>>)],
      [BaseRequest EXCEPT !.thread_id = PyStr(<<>>)],
      [BaseRequest EXCEPT !.transactions = NoList],
      [BaseRequest EXCEPT !.get_audio = Word("yes")] }
    \cup { [BaseRequest EXCEPT !.transactions = ListOf(List1 \o <<r>>)] : r \in BadRecords }

Requests == GoodRequests \cup OtherRequests

ThreadOf(request) == request.thread_id.s[1]

-----------------------------------------------------------------------------
(* The Decision Engine's possible tool calls in a state.  The transactions  *)
(* argument of a call is written by the engine like any other argument.     *)

AllButLast(l) == IF l = <<>> THEN <<>> ELSE SubSeq(l, 1, Len(l) - 1)

EngineCalls(transactions) ==
    { [DateCall("filter_by_date_and_sum", d_2025_08_01, d_2025_08_31, "debit")
          EXCEPT !.transactions = Given(transactions)],
      [TypeCall("filter_by_type_and_count", NoType)
          EXCEPT !.transactions = Given(AllButLast(transactions))],
      [AmountCall("filter_by_amount_and_sum", Amount(-1), NoAmount)
          EXCEPT !.transactions = Given(transactions)],
      [DateCall("filter_by_date_and_count", NoDate, d_2025_13_40, NoType)
          EXCEPT !.transactions = Given(transactions)],
      TypeCall("filter_by_type_and_sum", "credit") }

\* exception classes the Decision Engine call may raise
EngineErrors == {"ValueError", "Exception"}

-----------------------------------------------------------------------------
(* The graph (agent.py) *)

Last(l) == l[Len(l)]

\* tools_condition: the last turn is a model turn that asks for tool calls
tools_condition(st) ==
    IF st.messages # <<>> /\ Last(st.messages).type = "ai" /\ Last(st.messages).calls # <<>>
    THEN {"tools"} ELSE {}

generate_audio(st) == IF st.get_audio THEN {"speaker"} ELSE {}

\* the nodes the edges out of assistant schedule: each conditional edge is
\* evaluated on its own
AfterAssistant(st) == tools_condition(st) \cup generate_audio(st)

handle_tool_errors_off == FALSE

\* ToolNode(tool_list) is built with its default error handling: an
\* exception raised by a tool is caught and returned as an error turn
handle_tool_errors == TRUE

\* one tool call run by the tool node: the arguments are validated against
\* the primitive's signature, then the primitive runs
ExecuteTool(call) ==
    IF ~call.transactions.given THEN Raised("ValidationError: transactions: field required")
    ELSE InvokeTool(call)

\* the turns the tool node returns: one per call, in request order
ToolTurns(calls) == [i \in 1..Len(calls) |-> ToolMessage(calls[i], ExecuteTool(calls[i]))]

LoadCheckpoint_fresh(thread) == EmptyState

\* the checkpoint a run on a thread starts from: the last one the graph's
\* checkpointer saved under the thread id
LoadCheckpoint(thread) == store[thread]

\* the except clauses of invoke_graph
StatusFor(exception) == IF exception = "ValueError" THEN 400 ELSE 500

\* the superstep is over: its writes are applied, the checkpoint is saved,
\* and either the next superstep is scheduled or ainvoke returns
EndSuperstep(st, ranTools) ==
    /\ state' = st
    /\ store' = [store EXCEPT ![ThreadOf(req)] = st]
    /\ IF ranTools
       THEN /\ phase' = "running"
            /\ step' = [NoStep EXCEPT !.nodes = {"assistant"}, !.left = {"assistant"}]
            /\ UNCHANGED response
       ELSE /\ phase' = "idle"
            /\ step' = NoStep
            /\ response' = [code |-> 200, messages |-> Last(st.messages).text,
                            audio |-> st.audio]


\* the writes applied by a tool node that also returned the list its first
\* call was run on as the state's transactions
ApplyWrites_transactions(st, w) ==
    [st EXCEPT !.messages = @ \o w.msgs,
               !.audio = IF w.spoke THEN w.audio ELSE @,
               !.status = IF w.spoke THEN w.status ELSE @,
               !.transactions = IF w.msgs # <<>> /\ w.msgs[1].calls[1].transactions.given
                                THEN w.msgs[1].calls[1].transactions.list ELSE @]

\* the channel values once the writes of a superstep's nodes are applied:
\* the tool turns are appended, the speaker's audio and status overwrite
ApplyWrites(st, w) ==
    [st EXCEPT !.messages = @ \o w.msgs,
               !.audio = IF w.spoke THEN w.audio ELSE @,
               !.status = IF w.spoke THEN w.status ELSE @]

\* startup_event: create_graph opens a new in-memory database
startup_event ==
    /\ graph = "none"
    /\ phase = "idle"
    /\ graph' = "compiled"
    /\ store' = EmptyStore
    /\ UNCHANGED <<phase, req, state, step, response, engineCalls, engineTotal,
                   requests, pvars>>

\* shutdown_event and process exit: the connection is closed and the
\* in-memory database goes with the process
shutdown_event ==
    /\ graph = "compiled"
    /\ phase = "idle"
    /\ graph' = "none"
    /\ store' = EmptyStore
    /\ UNCHANGED <<phase, req, state, step, response, engineCalls, engineTotal,
                   requests, pvars>>

\* invoke_graph up to the first suspension inside graph.ainvoke: the
\* validation gate, the input state, the checkpoint of the input.  Requests
\* are served between startup and shutdown, when graph is not None.
invoke_graph ==
    /\ phase = "idle"
    /\ graph # "none"
    /\ requests < MaxRequests
    /\ requests' = requests + 1
    /\ \E request \in Requests :
        /\ req' = request
        /\ engineCalls' = 0
        /\ IF validate_invoke_request(request) # Valid
           THEN /\ response' = [code |-> StatusFor("ValueError"),
                                messages |-> validate_invoke_request(request),
                                audio |-> NoAudio]
                /\ UNCHANGED <<store, phase, state, step>>
           ELSE LET transactions == SortedDescending(request.transactions.items)
                    get_audio == request.get_audio = PyBool(TRUE)
                    prompt_message == HumanMessage(request.prompt.s[1], transactions)
                    checkpoint == LoadCheckpoint(ThreadOf(request))
                    input_state ==
                        [checkpoint EXCEPT
                            !.messages = @ \o <<prompt_message>>,
                            !.transactions = request.transactions.items,
                            !.get_audio = get_audio]
                IN  /\ engineTotal < MaxEngineCalls
                    /\ state' = input_state
                    /\ store' = [store EXCEPT ![ThreadOf(request)] = input_state]
                    /\ phase' = "running"
                    /\ step' = [NoStep EXCEPT !.nodes = {"assistant"}, !.left = {"assistant"}]
                    /\ response' = NoResponse
    /\ UNCHANGED <<graph, engineTotal, pvars>>

\* the responses the Decision Engine may give: a final answer, or (while
\* the bound leaves it a later invocation) one tool call, or two at once
EngineResponses(transactions) ==
    {AIMessage("answer", <<>>)}
    \cup (IF engineTotal + 1 < MaxEngineCalls
          THEN {AIMessage("", <<c>>) : c \in EngineCalls(transactions)}
               \cup {AIMessage("", << [TypeCall("filter_by_type_and_sum", NoType)
                                          EXCEPT !.transactions = Given(transactions)],
                                      [AmountCall("filter_by_amount_and_count", NoAmount, Amount(-1))
                                          EXCEPT !.transactions = Given(transactions)] >>)}
          ELSE {})

\* the assistant node: the Decision Engine answers or raises
assistant ==
    /\ phase = "running"
    /\ step.left = {"assistant"}
    /\ engineCalls' = engineCalls + 1
    /\ engineTotal' = engineTotal + 1
    /\ \/ \E llm_response \in EngineResponses(state.transactions) :
            LET st == [state EXCEPT !.messages = Append(@, llm_response),
                                    !.status = "Assistant done",
                                    !.audio = NoAudio]
                next == AfterAssistant(st)
            IN  IF next = {}
                THEN EndSuperstep(st, FALSE)
                ELSE /\ state' = st
                     /\ store' = [store EXCEPT ![ThreadOf(req)] = st]
                     /\ step' = [NoStep EXCEPT !.nodes = next, !.left = next]
                     /\ UNCHANGED <<phase, response>>
       \/ \E e \in EngineErrors :
            /\ phase' = "idle"
            /\ step' = NoStep
            /\ response' = [code |-> StatusFor(e), messages |-> e, audio |-> NoAudio]
            /\ UNCHANGED <<state, store>>
    /\ UNCHANGED <<graph, req, requests, pvars>>

\* the tools node: every call of the last model turn is run; a call that
\* raises becomes a tool turn carrying the error
tools ==
    /\ phase = "running"
    /\ "tools" \in step.left
    /\ LET turns == ToolTurns(Last(state.messages).calls)
           w == [step EXCEPT !.left = @ \ {"tools"}, !.msgs = turns]
       IN  IF handle_tool_errors \/ \A i \in 1..Len(turns) : turns[i].result.ok
           THEN IF w.left = {}
                THEN EndSuperstep(ApplyWrites(state, w), TRUE)
                ELSE /\ step' = w
                     /\ UNCHANGED <<state, store, phase, response>>
           ELSE /\ phase' = "idle"
                /\ step' = NoStep
                /\ response' = [code |-> StatusFor("ValueError"), messages |-> "ValueError",
                                audio |-> NoAudio]
                /\ UNCHANGED <<state, store>>
    /\ UNCHANGED <<graph, req, engineCalls, engineTotal, requests, pvars>>

\* the last model turn of the conversation, as the speaker looks it up
LastAI(messages) ==
    LET ai == { i \in 1..Len(messages) : messages[i].type = "ai" }
    IN  messages[CHOOSE i \in ai : \A j \in ai : j <= i]

\* the speaker node without its except clause: a synthesis failure leaves
\* the node as an exception and aborts the run
speaker_unhandled ==
    /\ phase = "running"
    /\ "speaker" \in step.left
    /\ \E tts \in {"ok", "failed"} :
        LET last_message == LastAI(state.messages)
            w == IF last_message.text = ""
                 THEN [step EXCEPT !.left = @ \ {"speaker"}, !.spoke = TRUE,
                                   !.audio = NoAudio,
                                   !.status = "No text available for audio conversion"]
                 ELSE [step EXCEPT !.left = @ \ {"speaker"}, !.spoke = TRUE,
                                   !.audio = "base64",
                                   !.status = "Audio generated successfully"]
        IN  IF last_message.text # "" /\ tts = "failed"
            THEN /\ phase' = "idle"
                 /\ step' = NoStep
                 /\ response' = [code |-> StatusFor("Exception"), messages |-> "Exception",
                                 audio |-> NoAudio]
                 /\ UNCHANGED <<state, store>>
            ELSE IF w.left = {}
            THEN EndSuperstep(ApplyWrites(state, w), "tools" \in step.nodes)
            ELSE /\ step' = w
                 /\ UNCHANGED <<state, store, phase, response>>
    /\ UNCHANGED <<graph, req, engineCalls, engineTotal, requests, pvars>>

\* the speaker node: no text, synthesis succeeds, or synthesis fails
speaker ==
    /\ phase = "running"
    /\ "speaker" \in step.left
    /\ \E tts \in {"ok", "failed"} :
        LET last_message == LastAI(state.messages)
            w == IF last_message.text = ""
                 THEN [step EXCEPT !.left = @ \ {"speaker"}, !.spoke = TRUE,
                                   !.audio = NoAudio,
                                   !.status = "No text available for audio conversion"]
                 ELSE IF tts = "ok"
                 THEN [step EXCEPT !.left = @ \ {"speaker"}, !.spoke = TRUE,
                                   !.audio = "base64",
                                   !.status = "Audio generated successfully"]
                 ELSE [step EXCEPT !.left = @ \ {"speaker"}, !.spoke = TRUE,
                                   !.audio = NoAudio,
                                   !.status = "Audio generation failed"]
        IN  IF w.left = {}
            THEN EndSuperstep(ApplyWrites(state, w), "tools" \in step.nodes)
            ELSE /\ step' = w
                 /\ UNCHANGED <<state, store, phase, response>>
    /\ UNCHANGED <<graph, req, engineCalls, engineTotal, requests, pvars>>

Init ==
    /\ pTransactions = <<>>
    /\ pCall = NoCall
    /\ pResult = NoResult
    /\ InitIdle

Next ==
    \/ startup_event
    \/ shutdown_event
    \/ invoke_graph
    \/ assistant
    \/ tools
    \/ speaker

Spec == Init /\ [][Next]_vars

-----------------------------------------------------------------------------
(* Properties of the primitives, checked under SpecPrim *)

DateTools == {"filter_by_date_and_sum", "filter_by_date_and_count"}
SumTools == {"filter_by_date_and_sum", "filter_by_type_and_sum", "filter_by_amount_and_sum"}

\* a real calendar date written YYYY-MM-DD
RealDate(s) == date_pattern(s) /\ CalendarDate(s)

\* a date argument that is supplied and is not a real YYYY-MM-DD date
Malformed(s) == s # NoDate /\ ~RealDate(s)

StartOfDay(s) == Instant(YearOf(s), MonthOf(s), DayOf(s), 0)
EndOfDay(s) == Instant(YearOf(s), MonthOf(s), DayOf(s), 23 * 3600 + 59 * 60 + 59)

\* the transactions stamped from start 00:00:00 to end 23:59:59, in list order
InDays(transactions, start, end) ==
    SelectSeq(transactions,
        LAMBDA t : /\ NotAfter(StartOfDay(start), fromisoformat(t.transactionDate.s).val)
                   /\ NotAfter(fromisoformat(t.transactionDate.s).val, EndOfDay(end)))

\* the reduction the called primitive applies to a selection
Reduce(name, sel) == IF name \in SumTools THEN SumAmounts(sel) ELSE Returned(Len(sel))

\* C1: for valid start_date <= end_date, a date-range primitive aggregates
\* exactly the transactions stamped from start_date 00:00:00 to end_date
\* 23:59:59 UTC.
C1_WholeEndDaySelected ==
    ( /\ pCall.name \in DateTools
      /\ RealDate(pCall.start_date) /\ RealDate(pCall.end_date)
      /\ NotAfter(StartOfDay(pCall.start_date), StartOfDay(pCall.end_date)) )
    => pResult = Reduce(pCall.name, InDays(pTransactions, pCall.start_date, pCall.end_date))

\* C4: a date-range primitive called with a transaction kind aggregates only
\* the transactions of its date selection that have that kind.
C4_DateToolsFilterByKind ==
    ( /\ pCall.name \in DateTools
      /\ pCall.transaction_type # NoType
      /\ DateSelect(pTransactions, pCall.start_date, pCall.end_date).ok )
    => pResult = Reduce(pCall.name,
                    TypeSelect(DateSelect(pTransactions, pCall.start_date, pCall.end_date).sel,
                               pCall.transaction_type))

\* C5: a date-range primitive called with a malformed start_date or a
\* malformed end_date fails and returns no aggregate.
C5_MalformedDateFails ==
    ( /\ pCall.name \in DateTools
      /\ (Malformed(pCall.start_date) \/ Malformed(pCall.end_date)) )
    => ~pResult.ok

\* the sum of the normalized amounts of a selection
RECURSIVE NormalizedSum(_)
NormalizedSum(sel) ==
    IF sel = <<>> THEN 0
    ELSE convert_to_float(Head(sel).amount).val + NormalizedSum(Tail(sel))

\* the transactions whose normalized amount lies within the bounds given
InAmounts(transactions, lo, hi) ==
    SelectSeq(transactions,
        LAMBDA t : /\ (lo.some => convert_to_float(t.amount).val >= lo.v)
                   /\ (hi.some => convert_to_float(t.amount).val <= hi.v))

\* C6: on a list the gate admits, amounts written with thousands separators
\* included, the sum and amount-range primitives return the aggregate of the
\* normalized amounts and do not fail.
C6_AmountsNormalized ==
    /\ pCall.name = "filter_by_type_and_sum"
         => pResult = Returned(NormalizedSum(TypeSelect(pTransactions, pCall.transaction_type)))
    /\ ( /\ pCall.name = "filter_by_amount_and_sum"
         /\ ~(pCall.min_amount.some /\ pCall.min_amount.v < 0)
         /\ ~(pCall.max_amount.some /\ pCall.max_amount.v < 0) )
         => pResult = Returned(NormalizedSum(
                         InAmounts(pTransactions, pCall.min_amount, pCall.max_amount)))
    /\ ( /\ pCall.name = "filter_by_amount_and_count"
         /\ ~(pCall.min_amount.some /\ pCall.min_amount.v < 0)
         /\ ~(pCall.max_amount.some /\ pCall.max_amount.v < 0) )
         => pResult = Returned(Len(
                         InAmounts(pTransactions, pCall.min_amount, pCall.max_amount)))
    /\ ( /\ pCall.name = "filter_by_date_and_sum"
         /\ DateSelect(pTransactions, pCall.start_date, pCall.end_date).ok )
         => pResult = Returned(NormalizedSum(
                         DateSelect(pTransactions, pCall.start_date, pCall.end_date).sel))

-----------------------------------------------------------------------------
(* Properties of a run, checked under Spec *)

\* C2: every tool turn produced by the tool-execution step carries the
\* result of its primitive evaluated on the transaction list carried in the
\* run's state, whatever transactions argument the call has.
C2_ToolsUseStateTransactions ==
    \A i \in 1..Len(step.msgs) :
        step.msgs[i].result =
            InvokeTool([step.msgs[i].calls[1] EXCEPT !.transactions = Given(state.transactions)])

\* C3: the speaker node is scheduled only after a Decision Engine response
\* without tool calls, and only when the caller asked for audio.
C3_SpeakerOnlyAfterFinalAnswer ==
    (phase = "running" /\ "speaker" \in step.left)
    => (LastAI(state.messages).calls = <<>> /\ req.get_audio = PyBool(TRUE))

\* the request breaks a rule of the gate: empty prompt or thread id,
\* transactions not a list, get_audio present and not a boolean, or a record
\* with a missing or mistyped field, a type that is neither credit nor debit,
\* a currency other than NGN, or a malformed transactionDate
IsText(v) == v.k = "str"
IsNumberOrText(v) == v.k \in {"str", "int", "float"}

InvalidRecord(t) ==
    \/ ~IsText(t.transactionId)
    \/ ~IsNumberOrText(t.amount)
    \/ t.type \notin {Word("credit"), Word("debit")}
    \/ t.currency # Word("NGN")
    \/ ~IsNumberOrText(t.balance)
    \/ ~IsText(t.transactionDate)
    \/ ~transactionDate_pattern(t.transactionDate.s)

InvalidRequest(request) ==
    \/ ~IsText(request.prompt) \/ request.prompt.s = <<>>
    \/ ~IsText(request.thread_id) \/ request.thread_id.s = <<>>
    \/ ~request.transactions.isList
    \/ request.get_audio.k \notin {"none", "bool"}
    \/ \E i \in 1..Len(request.transactions.items) :
            InvalidRecord(request.transactions.items[i])

\* C7: a request that breaks a rule of the gate is rejected without any
\* Decision Engine invocation.
C7_InvalidRequestRejected ==
    (requests > 0 /\ InvalidRequest(req))
    => (phase = "idle" /\ engineCalls = 0 /\ response.code = 400)

\* C8: a request is answered 400 exactly when it failed validation; a
\* failure raised after the gate has passed is answered 500.
C8_ClientErrorOnlyForValidation ==
    (requests > 0 /\ phase = "idle")
    => (response.code = 400 <=> validate_invoke_request(req) # Valid)

\* a call of the last model turn fails on its parameters
FailsOnParameters(call) ==
    \/ call.name \in DateTools /\ (Malformed(call.start_date) \/ Malformed(call.end_date))
    \/ call.name \in {"filter_by_amount_and_sum", "filter_by_amount_and_count"}
       /\ \/ call.min_amount.some /\ call.min_amount.v < 0
          \/ call.max_amount.some /\ call.max_amount.v < 0

ToolsRun == phase = "running" /\ "tools" \in step.left /\ "tools" \notin step'.left

FailingCallRequested ==
    \E i \in 1..Len(Last(state.messages).calls) :
        /\ FailsOnParameters(Last(state.messages).calls[i])
        /\ ~ExecuteTool(Last(state.messages).calls[i]).ok

\* the turns of the superstep once written: in the conversation when the
\* superstep is over, in the superstep's writes until then
TurnsWritten(before, turns) ==
    IF step'.left = {"assistant"}
    THEN state'.messages = before \o turns
    ELSE step'.msgs = turns /\ "tools" \in step'.nodes /\ step'.left = {"speaker"}

\* C9: when a requested primitive fails on its parameters, the tool step
\* records the failure as a tool turn, the run goes on to another Decision
\* Engine invocation, and no response is produced by the step.
C9_ToolFailureFedBack ==
    [][ /\ (ToolsRun /\ FailingCallRequested)
            => /\ phase' = "running"
               /\ response' = response
               /\ TurnsWritten(state.messages, ToolTurns(Last(state.messages).calls))
               /\ \E i \in 1..Len(Last(state.messages).calls) :
                    ~ToolTurns(Last(state.messages).calls)[i].result.ok
        /\ (phase = "running" /\ step.left = {"speaker"} /\ "tools" \in step.nodes)
            => /\ phase' = "running"
               /\ step'.left = {"assistant"}
               /\ state'.messages = state.messages \o step.msgs ]_vars

C9_Witness ==
    /\ phase = "running"
    /\ step.left = {"assistant"}
    /\ state.messages # <<>>
    /\ Last(state.messages).type = "tool"
    /\ ~Last(state.messages).result.ok
    /\ FailsOnParameters(Last(state.messages).calls[1])


RunStarts == phase = "idle" /\ phase' = "running"
RunCompletes == phase = "running" /\ phase' = "idle" /\ response'.code = 200

\* C10 (as claimed): the conversation a completed run left stays the
\* persisted conversation of its thread through every step taken between
\* runs, a restart of the process included.
C10_ConversationSurvivesRestart ==
    [][ (phase = "idle" /\ phase' = "idle" /\ response.code = 200)
        => store'[ThreadOf(req)].messages = state.messages ]_vars

\* C10 (amended): within one process, a run on a thread starts from the
\* conversation last checkpointed under its thread id, a completed run
\* leaves its full conversation there, nothing between runs changes the
\* store and a run touches its own thread only; a restart empties the store.
C10_PersistsWithinProcess ==
    [][ /\ RunStarts
            => /\ Len(state'.messages) = Len(store[ThreadOf(req')].messages) + 1
               /\ SubSeq(state'.messages, 1, Len(state'.messages) - 1)
                    = store[ThreadOf(req')].messages
               /\ Last(state'.messages).type = "human"
        /\ RunCompletes => store'[ThreadOf(req)].messages = state'.messages
        /\ (phase = "idle" /\ phase' = "idle" /\ graph' = graph) => store' = store
        /\ (phase = "running")
            => \A t \in Threads \ {ThreadOf(req)} : store'[t] = store[t]
        /\ graph' # graph => store' = EmptyStore ]_vars

\* a run has started on a thread that already held a completed conversation
C10_Witness ==
    /\ phase = "running"
    /\ Len(state.messages) >= 3
    /\ state.messages[1].type = "human"
    /\ state.messages[2].type = "ai"
    /\ state.messages[2].calls = <<>>
    /\ Last(state.messages).type = "human"

\* the conversation a thread held when the run that wrote messages started:
\* the turns before the run's human turn, which is the last human turn
BeforeRun(messages) ==
    LET human == { i \in 1..Len(messages) : messages[i].type = "human" }
    IN  SubSeq(messages, 1, (CHOOSE i \in human : \A j \in human : j <= i) - 1)

RunAborts == phase = "running" /\ phase' = "idle" /\ response'.code # 200

\* C11: when a run is aborted before it completes, the persisted
\* conversation of its thread is the one the thread held before the run
\* started: no turn of the aborted run is left in the session store.
C11_AbortLeavesNoPartialState ==
    [][ RunAborts => store'[ThreadOf(req)].messages = BeforeRun(state.messages) ]_vars

SpeakerRuns == phase = "running" /\ "speaker" \in step.left /\ "speaker" \notin step'.left

\* the speaker had a text to convert and its step produced no audio
SynthesisFails ==
    /\ SpeakerRuns
    /\ state.get_audio
    /\ LastAI(state.messages).text # ""
    /\ state'.audio = NoAudio

\* C12: when audio was requested and synthesis fails, the speaker step sets
\* audio to null and records a failure status, leaves the conversation and
\* the transaction list as they were, and the run ends with a successful
\* response that carries the final answer's text and a null audio.
C12_SynthesisFailureDegrades ==
    [][ SynthesisFails
        => /\ state'.audio = NoAudio
           /\ state'.status = "Audio generation failed"
           /\ state'.messages = state.messages
           /\ state'.transactions = state.transactions
           /\ state'.get_audio = state.get_audio
           /\ store'[ThreadOf(req)] = state'
           /\ phase' = "idle"
           /\ response' = [code |-> 200, messages |-> LastAI(state.messages).text,
                           audio |-> NoAudio]
           /\ LastAI(state.messages).calls = <<>> ]_vars

\* a run that asked for audio has ended after a failed synthesis
C12_Witness ==
    /\ phase = "idle"
    /\ req.get_audio = PyBool(TRUE)
    /\ state.status = "Audio generation failed"
    /\ response = [code |-> 200, messages |-> "answer", audio |-> NoAudio]

-----------------------------------------------------------------------------
(* Further properties of the primitives, checked under SpecPrim *)

\* C13: a date-range primitive called with start_date and without end_date
\* aggregates exactly the transactions stamped on start_date, from 00:00:00
\* to 23:59:59 UTC.
C13_SingleDayWindow ==
    ( /\ pCall.name \in DateTools
      /\ RealDate(pCall.start_date)
      /\ pCall.end_date = NoDate )
    => pResult = Reduce(pCall.name, InDays(pTransactions, pCall.start_date, pCall.start_date))

AmountTools == {"filter_by_amount_and_sum", "filter_by_amount_and_count"}

RangeErrors == { "ValueError: min_amount must be non-negative",
                 "ValueError: max_amount must be non-negative" }

NegativeBound(call) ==
    \/ call.min_amount.some /\ call.min_amount.v < 0
    \/ call.max_amount.some /\ call.max_amount.v < 0

\* C14: an amount-range primitive called with a negative min_amount or a
\* negative max_amount fails with the range error, whatever the list and the
\* other bound, and before any transaction is looked at: a list holding an
\* amount the filter would fail on still gives the range error.
C14_NegativeBoundFails ==
    (pCall.name \in AmountTools /\ NegativeBound(pCall))
    => (~pResult.ok /\ pResult.err \in RangeErrors)

\* max_amount alone is negative, min_amount is given and the list holds an
\* amount float() rejects
C14_Witness ==
    /\ pCall.name \in AmountTools
    /\ pCall.min_amount = Amount(100)
    /\ pCall.max_amount = Amount(-1)
    /\ \E i \in 1..Len(pTransactions) : ~float(pTransactions[i].amount).ok
    /\ pResult = Raised("ValueError: max_amount must be non-negative")

-----------------------------------------------------------------------------
(* Further properties of a run, checked under Spec *)

\* C16: a tool-execution step changes the conversation only, by appending
\* its tool turns when the superstep's writes are applied: the transaction
\* list in state, the request and its transaction list, get_audio and audio
\* are after the step what they were before it.
C16_ToolsChangeConversationOnly ==
    [][ ToolsRun
        => /\ state'.transactions = state.transactions
           /\ req' = req
           /\ state'.get_audio = state.get_audio
           /\ state'.audio = state.audio
           /\ \/ state'.messages = state.messages /\ step'.left # {"assistant"}
              \/ state'.messages = state.messages \o ToolTurns(Last(state.messages).calls) ]_vars

\* the tool step has run a call whose transactions argument is not the
\* state's list, and the state still carries the request's list
C16_Witness ==
    /\ phase = "running"
    /\ step.left = {"assistant"}
    /\ Last(state.messages).type = "tool"
    /\ Last(state.messages).calls[1].transactions.given
    /\ Last(state.messages).calls[1].transactions.list # state.transactions
    /\ Len(state.transactions) = 2
    /\ state.transactions = req.transactions.items

-----------------------------------------------------------------------------
(* Order of the transaction list, checked under SpecOrder *)

\* the orders of a list of n records: for each place, the place it is taken from
Perms(n) == { p \in [1..n -> 1..n] : \A i, j \in 1..n : p[i] = p[j] => i = j }

Permuted(l, p) == [i \in 1..Len(l) |-> l[p[i]]]

\* the call made, on the list in the order p
OnPermutation(p) ==
    InvokeTool([pCall EXCEPT !.transactions = Given(Permuted(pTransactions, p))])

\* the total of the amounts of a list as a whole number, without rounding
RECURSIVE ExactTotal(_)
ExactTotal(l) ==
    IF l = <<>> THEN 0 ELSE float(Head(l).amount).val + ExactTotal(Tail(l))

\* C15 (as claimed): each primitive, with its filter parameters fixed,
\* gives on every permutation of a transaction list the result it gives on
\* the list.
C15_OrderInvariant ==
    pCall.name # "none"
    => \A p \in Perms(Len(pTransactions)) : OnPermutation(p) = pResult

\* C15 (amended): on every permutation of the list a primitive fails if and
\* only if it fails on the list, a count primitive returns the same count,
\* and a sum primitive returns the same sum when the amounts are whole
\* numbers whose total is at most 2^53, so that no addition rounds.
C15_OrderInvariantWhenExact ==
    pCall.name # "none"
    => \A p \in Perms(Len(pTransactions)) :
            LET permuted == OnPermutation(p)
            IN  /\ permuted.ok = pResult.ok
                /\ pCall.name \notin SumTools => permuted = pResult
                /\ ExactTotal(pTransactions) <= TwoTo53 => permuted = pResult

\* a sum primitive has summed two different amounts it selected from a list
\* of three records, and no addition rounded
C15_Witness ==
    /\ pCall.name = "filter_by_type_and_sum"
    /\ pCall.transaction_type = "debit"
    /\ Len(pTransactions) = 3
    /\ Len(TypeSelect(pTransactions, "debit")) = 2
    /\ ExactTotal(pTransactions) <= TwoTo53
    /\ pResult = Returned(3)


====
